---- MODULE Spec2Model ----
(***************************************************************************)
(* Model of streamlit_app/main.py: a Streamlit script that is re-run from  *)
(* top to bottom on every user interaction.  One script run is the chain   *)
(*   Sidebar -> SessionInit -> RefreshCheck -> CreateDashboard -> Footer   *)
(* and the wall clock may advance between any two steps.                   *)
(*                                                                         *)
(* Units: temperature and wind_speed are kept in tenths, precipitation in  *)
(* hundredths (the digits round() keeps); humidity and air_quality_index   *)
(* are integers.  A summary card holds the tenths that "{x:.1f}" prints.   *)
(* A "%Y-%m-%d" string is the triple <<year, month, day>> of its digits.   *)
(***************************************************************************)
EXTENDS Integers, Sequences, FiniteSets, TLC

\* ------------------------------------------------------------- bounds
\* Seconds between the first script run and the following midnight.
LeadIn == 2
\* The clock stops this many seconds after the first script run.
MaxElapsed == 6
\* Random streams 0..MaxSeed the generator may be started with.
MaxSeed == 1
\* Latest loop iteration before which the clock may tick during generation.
MaxCrossAt == 1
\* Resolution of random.random(): values u / RandomDen, u in 0..RandomDen-1.
RandomDen == 1024

\* --------------------------------------------------- program constants
NumDays == 30
PickerSpan == 30
SliderMin == 5
SliderMax == 60
SliderDefault == 30
SecondsPerDay == 86400

regions == <<"New York", "London", "Tokyo", "Mumbai", "Sydney", "Paris", "Dubai", "Singapore">>
AllRegions == "All Regions"

\* The dates, regions and slider positions the user is offered in this model.
PickerOffsets == {0, NumDays - 1, PickerSpan}
RegionChoices == {AllRegions, "Tokyo"}
IntervalChoices == {SliderMin}
Seeds == 0..MaxSeed

\* The first script run starts LeadIn seconds before 2024-03-01 00:00:00.
StartTime == 19783 * SecondsPerDay - LeadIn
EndTime == StartTime + MaxElapsed

\* ------------------------------------------------------ pure functions
Range(s) == {s[k] : k \in DOMAIN s}

RECURSIVE SumOver(_, _, _)
SumOver(s, field, k) == IF k = 0 THEN 0 ELSE s[k][field] + SumOver(s, field, k - 1)

\* datetime.now().date() as a day number (days since 1970-01-01).
Day(t) == t \div SecondsPerDay

\* strftime("%Y-%m-%d") of a day number: the proleptic Gregorian date.
Strftime(day) ==
    LET z == day + 719468
        era == z \div 146097
        doe == z - era * 146097
        yoe == (doe - doe \div 1460 + doe \div 36524 - doe \div 146096) \div 365
        doy == doe - (365 * yoe + yoe \div 4 - yoe \div 100)
        mp == (5 * doy + 2) \div 153
        d == doy - (153 * mp + 2) \div 5 + 1
        m == IF mp < 10 THEN mp + 3 ELSE mp - 9
        y == yoe + era * 400 + (IF m <= 2 THEN 1 ELSE 0)
    IN  <<y, m, d>>

\* round(): n / d to the nearest integer, ties to even.
Round(n, d) ==
    LET q == n \div d
        r == n % d
    IN  IF 2 * r < d THEN q
        ELSE IF 2 * r > d THEN q + 1
        ELSE IF q % 2 = 0 THEN q ELSE q + 1

\* The n-th value of random.random() in stream `seed`, as a numerator over RandomDen.
Draw(seed, n) == ((seed + 1) * 389 + n * 617) % RandomDen

\* Mutant: the range is taken as [a, a + b] instead of [a, b].
UniformWide(a, b, u, scale) == Round((a * RandomDen + b * u) * scale, RandomDen)

\* round(random.uniform(a, b), digits), in units of 1 / scale: a + (b - a) * u.
Uniform(a, b, u, scale) == Round((a * RandomDen + (b - a) * u) * scale, RandomDen)

\* The body of generate_sample_data: iteration i of the outer loop reads the clock
\* as t0 when i < crossAt and as t1 afterwards; record k takes draws 5k .. 5k+4.
Generate(seed, t0, t1, crossAt) ==
    [k \in 1..(NumDays * Len(regions)) |->
        LET i == (k - 1) \div Len(regions)
            r == ((k - 1) % Len(regions)) + 1
            t == IF i < crossAt THEN t0 ELSE t1
            n == 5 * (k - 1)
        IN  [date |-> Strftime(Day(t) - i),
             region |-> regions[r],
             temperature |-> Uniform(15, 35, Draw(seed, n), 10),
             humidity |-> Uniform(30, 90, Draw(seed, n + 1), 1),
             wind_speed |-> Uniform(0, 30, Draw(seed, n + 2), 10),
             air_quality_index |-> Uniform(20, 150, Draw(seed, n + 3), 1),
             precipitation |-> Uniform(0, 100, Draw(seed, n + 4), 100)]]

NoData == <<>>

\* Mutant: the decorator is missing and every call runs the body again.
Uncached(stored, fresh) == fresh

\* @st.cache_data: the stored value when there is one, else the body's result.
CacheData(stored, fresh) == IF stored = NoData THEN fresh ELSE stored

\* ------------------------------------------------- load_weather_data
\* [d for d in data if d['date'] == selected_date.strftime('%Y-%m-%d')]
FilterDate(rows, date) ==
    LET wanted == Strftime(date)
    IN  SelectSeq(rows, LAMBDA d : d.date = wanted)

\* The second filter, applied unless "All Regions" is selected.
FilterRegion(rows, region) ==
    IF region # AllRegions
    THEN SelectSeq(rows, LAMBDA d : d.region = region)
    ELSE rows

\* Mutant: the test is written "filtered_data is None", which a list never is.
IsNone(rows) == FALSE

\* "not filtered_data": a list is falsy when it has no element.
Falsy(rows) == Len(rows) = 0

\* What the try block may raise in this model: nothing, or an error of the call
\* that loads the data.
Raisable == {"none", "MemoryError"}

\* Mutant: the handler is narrowed to one exception class.
ExceptKeyError(e) == e = "KeyError"

\* "except Exception": every exception class of Raisable derives from Exception.
ExceptException(e) == e \in {"MemoryError", "KeyError"}

\* load_weather_data: the frame's rows, the message shown (st.warning or
\* st.error) and whether an exception leaves the function.
LoadWeatherData(rows, date, region, e) ==
    IF e # "none"
    THEN IF ExceptException(e)
         THEN [df |-> <<>>, message |-> "error", escaped |-> FALSE]
         ELSE [df |-> <<>>, message |-> "none", escaped |-> TRUE]
    ELSE LET filtered_data == FilterRegion(FilterDate(rows, date), region)
         IN  IF Falsy(filtered_data)
             THEN [df |-> <<>>, message |-> "warning", escaped |-> FALSE]
             ELSE [df |-> filtered_data, message |-> "none", escaped |-> FALSE]

\* --------------------------------------------------- create_dashboard
\* Mutant: the digits after the first decimal are cut off instead of rounded.
FormatTrunc(num, den, up) == num \div den

\* "{x:.1f}" of x = num / den tenths: the nearest tenth; a tie goes up or down
\* with the binary value of x.
Format1(num, den, up) ==
    LET q == num \div den
        r == num % den
    IN  IF 2 * r < den THEN q
        ELSE IF 2 * r > den THEN q + 1
        ELSE IF up THEN q + 1 ELSE q

\* Column sum and row count of the frame.
ColumnSum(df, field) == SumOver(df, field, Len(df))

\* A column of integers: its mean is a binary fraction here, so a tie is exact
\* and goes to the even tenth.
CardOfInts(df, field) ==
    LET num == 10 * ColumnSum(df, field)
    IN  Format1(num, Len(df), (num \div Len(df)) % 2 = 1)

\* A column kept in tenths.
CardOfTenths(df, field, up) == Format1(ColumnSum(df, field), Len(df), up)

\* The four metric cards: temperature, humidity, wind speed, AQI.
Cards(df, upT, upW) ==
    <<CardOfTenths(df, "temperature", upT),
      CardOfInts(df, "humidity"),
      CardOfTenths(df, "wind_speed", upW),
      CardOfInts(df, "air_quality_index")>>

Elements == {"cards", "tabs", "charts", "table", "download"}

\* ------------------------------------------------------- auto refresh
\* Mutant: the comparison is not strict.
RefreshDueAtLeast(auto, t, last, interval) == auto /\ t - last >= interval

\* if auto_refresh: if time.time() - st.session_state.last_refresh > refresh_interval
RefreshDue(auto, t, last, interval) == auto /\ t - last > interval

\* -------------------------------------------------------------- state
VARIABLES
    now,              \* the wall clock, in seconds (time.time(), datetime.now())
    cache,            \* what @st.cache_data holds for generate_sample_data
    last_refresh,     \* st.session_state: {} without the key, else {its value}
    picker_day,       \* {} before the date picker is first drawn, else {the day it was drawn for}
    selected_date,    \* the date picker's value, a day number
    selected_region,  \* the select box's value
    auto_refresh,     \* the check box's value
    refresh_interval, \* the slider's value (read only while auto_refresh)
    pc,               \* where the script run stands
    sample_data,      \* the script's sample_data (line 71)
    data,             \* load_weather_data's data (line 84)
    weather_df,       \* create_dashboard's weather_df: the frame's rows
    message,          \* "warning", "error" or "none": what load_weather_data showed
    raised,           \* what the try block of load_weather_data raised, or "none"
    escaped,          \* an exception left load_weather_data
    rendered,         \* the elements create_dashboard drew in this run
    cards,            \* the four metric cards, in tenths; <<>> when not drawn
    footer            \* the footer has been drawn in this run

widgets == <<picker_day, selected_date, selected_region, auto_refresh, refresh_interval>>
outputs == <<sample_data, data, weather_df, message, raised, escaped, rendered, cards, footer>>
vars == <<now, cache, last_refresh, pc, widgets, outputs>>

\* A script run starts with a fresh module namespace and an empty page.
FreshRun ==
    /\ sample_data' = NoData
    /\ data' = NoData
    /\ weather_df' = <<>>
    /\ message' = "none"
    /\ raised' = "none"
    /\ escaped' = FALSE
    /\ rendered' = {}
    /\ cards' = <<>>
    /\ footer' = FALSE

Init ==
    /\ now = StartTime
    /\ cache = NoData
    /\ last_refresh = {}
    /\ picker_day = {}
    /\ selected_date = Day(StartTime)
    /\ selected_region = AllRegions
    /\ auto_refresh = FALSE
    /\ refresh_interval = SliderDefault
    /\ pc = "sidebar"
    /\ sample_data = NoData
    /\ data = NoData
    /\ weather_df = <<>>
    /\ message = "none"
    /\ raised = "none"
    /\ escaped = FALSE
    /\ rendered = {}
    /\ cards = <<>>
    /\ footer = FALSE

\* ------------------------------------------------------ the script run
\* Lines 57-79.  The date picker is drawn for today; drawn for another day than
\* the last time, it is a new widget and shows its default, today.  The first
\* call of generate_sample_data runs its body, during which the clock may tick
\* (dt) before iteration crossAt of the outer loop.
Sidebar ==
    /\ pc = "sidebar"
    /\ \E seed \in Seeds, dt \in 0..1, crossAt \in 0..MaxCrossAt :
          LET result == CacheData(cache, Generate(seed, now, now + dt, crossAt))
          IN  /\ now + dt <= EndTime
              /\ dt = 0 => crossAt = 0
              /\ cache # NoData => (dt = 0 /\ seed = 0)
              /\ cache' = result
              /\ sample_data' = result
              /\ now' = now + dt
    /\ picker_day' = {Day(now)}
    /\ selected_date' = IF picker_day = {Day(now)} THEN selected_date ELSE Day(now)
    /\ pc' = "session"
    /\ UNCHANGED <<last_refresh, selected_region, auto_refresh, refresh_interval>>
    /\ UNCHANGED <<data, weather_df, message, raised, escaped, rendered, cards, footer>>

\* Lines 208-209.
SessionInit ==
    /\ pc = "session"
    /\ last_refresh' = IF last_refresh = {} THEN {now} ELSE last_refresh
    /\ pc' = "refresh"
    /\ UNCHANGED <<now, cache, widgets, outputs>>

\* Lines 211-214.  st.experimental_rerun() ends the run where it stands; the
\* clock may tick (dt) between the two calls of time.time().
RefreshCheck ==
    /\ pc = "refresh"
    /\ LET last == CHOOSE t \in last_refresh : TRUE
       IN  IF RefreshDue(auto_refresh, now, last, refresh_interval)
           THEN \E dt \in 0..1 :
                   /\ now + dt <= EndTime
                   /\ now' = now + dt
                   /\ last_refresh' = {now + dt}
                   /\ pc' = "rerun"
           ELSE /\ pc' = "dashboard"
                /\ UNCHANGED <<now, last_refresh>>
    /\ UNCHANGED <<cache, widgets, outputs>>

\* The run requested by st.experimental_rerun() starts, the widgets as they are.
StartRerun ==
    /\ pc = "rerun"
    /\ pc' = "sidebar"
    /\ FreshRun
    /\ UNCHANGED <<now, cache, last_refresh, widgets>>

\* Line 216: create_dashboard, with the load_weather_data it calls.  e is what
\* the try block raises: "MemoryError" by the call of line 84.
CreateDashboard ==
    /\ pc = "dashboard"
    /\ \E seed \in Seeds, e \in Raisable, upT \in BOOLEAN, upW \in BOOLEAN :
          LET loaded == IF e = "MemoryError" THEN NoData
                        ELSE CacheData(cache, Generate(seed, now, now, 0))
              got == LoadWeatherData(loaded, selected_date, selected_region, e)
          IN  /\ cache # NoData => seed = 0
              /\ data' = loaded
              /\ cache' = IF e = "MemoryError" THEN cache ELSE loaded
              /\ weather_df' = got.df
              /\ message' = got.message
              /\ raised' = e
              /\ escaped' = got.escaped
              /\ IF got.escaped
                 THEN /\ pc' = "failed"
                      /\ UNCHANGED <<rendered, cards>>
                 ELSE /\ pc' = "footer"
                      /\ IF got.df # <<>>
                         THEN /\ cards' = Cards(got.df, upT, upW)
                              /\ rendered' = Elements
                         ELSE UNCHANGED <<rendered, cards>>
    /\ UNCHANGED <<now, last_refresh, widgets, sample_data, footer>>

\* Lines 218-224.
Footer ==
    /\ pc = "footer"
    /\ footer' = TRUE
    /\ pc' = "done"
    /\ UNCHANGED <<now, cache, last_refresh, widgets>>
    /\ UNCHANGED <<sample_data, data, weather_df, message, raised, escaped, rendered, cards>>

\* ------------------------------------------------------ the environment
Tick ==
    /\ now < EndTime
    /\ now' = now + 1
    /\ UNCHANGED <<cache, last_refresh, pc, widgets, outputs>>

\* A change of a drawn widget ends the run in progress and starts the next.
Interrupt ==
    /\ picker_day # {}
    /\ pc' = "sidebar"
    /\ FreshRun
    /\ UNCHANGED <<now, cache, last_refresh>>

\* The picker offers min_value .. max_value as computed when it was drawn.
SelectDate ==
    /\ Interrupt
    /\ \E off \in PickerOffsets :
          /\ selected_date' = (CHOOSE d \in picker_day : TRUE) - off
          /\ selected_date' # selected_date
    /\ UNCHANGED <<picker_day, selected_region, auto_refresh, refresh_interval>>

SelectRegion ==
    /\ Interrupt
    /\ \E r \in RegionChoices :
          /\ r \in {AllRegions} \cup {d.region : d \in Range(cache)}
          /\ r # selected_region
          /\ selected_region' = r
    /\ UNCHANGED <<picker_day, selected_date, auto_refresh, refresh_interval>>

\* The slider is drawn only while the box is checked and starts at its default.
ToggleAutoRefresh ==
    /\ Interrupt
    /\ auto_refresh' = ~auto_refresh
    /\ refresh_interval' = SliderDefault
    /\ UNCHANGED <<picker_day, selected_date, selected_region>>

MoveSlider ==
    /\ Interrupt
    /\ auto_refresh
    /\ \E v \in IntervalChoices :
          /\ v # refresh_interval
          /\ refresh_interval' = v
    /\ UNCHANGED <<picker_day, selected_date, selected_region, auto_refresh>>

Next ==
    \/ Sidebar
    \/ SessionInit
    \/ RefreshCheck
    \/ StartRerun
    \/ CreateDashboard
    \/ Footer
    \/ Tick
    \/ SelectDate
    \/ SelectRegion
    \/ ToggleAutoRefresh
    \/ MoveSlider

Spec == Init /\ [][Next]_vars

\* A started script run is carried through and the clock runs on; nothing
\* obliges the user to touch a widget.
ScriptStep == Sidebar \/ SessionInit \/ RefreshCheck \/ StartRerun \/ CreateDashboard \/ Footer

FairSpec == Spec /\ WF_vars(ScriptStep) /\ WF_vars(Tick)

\* ------------------------------------------------------------- claims
\* load_weather_data has returned in this run without showing an error.
Loaded == pc \in {"footer", "done"} /\ message # "error"

\* The rows of the cached collection for the selected date.
RowsOfDate == {d \in Range(cache) : d.date = Strftime(selected_date)}

\* The rows of the cached collection that match the selected date and region.
Matching == {d \in RowsOfDate : selected_region = AllRegions \/ d.region = selected_region}

\* C1: with "All Regions" the result is every generated record of the selected
\* date; with a named region it is exactly one record, of that region and date.
C1_FilterByDateAndRegion ==
    Loaded =>
        IF selected_region = AllRegions
        THEN Range(weather_df) = RowsOfDate
        ELSE /\ Len(weather_df) = 1
             /\ weather_df[1].region = selected_region
             /\ weather_df[1].date = Strftime(selected_date)

\* C2: a generated collection has 30 * 8 = 240 records, one for each pair of a
\* day and a region: 240 distinct pairs over 30 distinct dates.
C2_OneRecordPerDayAndRegion ==
    cache # NoData =>
        /\ Len(cache) = NumDays * Len(regions)
        /\ Cardinality({<<d.date, d.region>> : d \in Range(cache)}) = NumDays * Len(regions)
        /\ Cardinality({d.date : d \in Range(cache)}) = NumDays

\* C3: while auto-refresh is on, once more than the interval has passed since
\* the last refresh a re-run is eventually forced, with no user interaction.
C3_RefreshEventuallyForced ==
    [](/\ auto_refresh
       /\ last_refresh # {}
       /\ \A t \in last_refresh : now - t > refresh_interval
       => <>(pc = "rerun"))

\* C4: the collection the first call stores is never replaced, and every call
\* (line 71, line 84) returns it.
C4_CachedCollectionIsStable ==
    [][/\ cache # NoData => cache' = cache
       /\ sample_data' # NoData => sample_data' = cache'
       /\ data' # NoData => data' = cache']_vars

C4_Witness ==
    /\ pc = "done"
    /\ selected_region # AllRegions
    /\ data # NoData
    /\ data = sample_data

\* C5: when no generated record matches the selection, load_weather_data
\* returns an empty frame with the warning, raises nothing, and create_dashboard
\* draws nothing.
C5_NoMatchWarns ==
    (pc \in {"footer", "done", "failed"} /\ raised = "none" /\ Matching = {}) =>
        /\ weather_df = <<>>
        /\ message = "warning"
        /\ ~escaped
        /\ rendered = {}
        /\ cards = <<>>

C5_Witness == pc = "done" /\ raised = "none" /\ Matching = {} /\ message = "warning"

\* C6: an exception raised in the try block is caught and shown as an error;
\* the frame is empty, nothing escapes, and the run goes on to the footer.
C6_ExceptionIsCaught ==
    raised # "none" =>
        /\ ~escaped
        /\ message = "error"
        /\ weather_df = <<>>
        /\ rendered = {}
        /\ pc \in {"footer", "done"}
        /\ pc = "done" => footer

C6_Witness == raised # "none" /\ pc = "done" /\ footer

\* C7: every generated record has each field within its documented range and
\* a region of the fixed list.
C7_FieldsInRange ==
    \A k \in DOMAIN cache :
        /\ cache[k].temperature \in 150..350
        /\ cache[k].humidity \in 30..90
        /\ cache[k].wind_speed \in 0..300
        /\ cache[k].air_quality_index \in 20..150
        /\ cache[k].precipitation \in 0..10000
        /\ cache[k].region \in Range(regions)

C7_Witness ==
    /\ cache # NoData
    /\ \E k \in DOMAIN cache : cache[k].temperature >= 340
    /\ \E k \in DOMAIN cache : cache[k].temperature <= 160

\* C8 as stated: each card equals the arithmetic mean of its column exactly.
C8_CardsEqualMean ==
    cards # <<>> =>
        LET n == Len(weather_df)
        IN  /\ cards[1] * n = ColumnSum(weather_df, "temperature")
            /\ cards[2] * n = 10 * ColumnSum(weather_df, "humidity")
            /\ cards[3] * n = ColumnSum(weather_df, "wind_speed")
            /\ cards[4] * n = 10 * ColumnSum(weather_df, "air_quality_index")

Abs(x) == IF x < 0 THEN -x ELSE x

\* C8 amended: every non-empty frame gets its cards, and each card is the
\* arithmetic mean of its column over the frame's rows to the nearest tenth
\* (at most 0.05 away); for a single row it is that row's value.
C8_CardsAreMeanToNearestTenth ==
    /\ (pc \in {"footer", "done"} /\ weather_df # <<>>) => cards # <<>>
    /\ cards # <<>> =>
        LET n == Len(weather_df)
        IN  /\ n > 0
            /\ 2 * Abs(cards[1] * n - ColumnSum(weather_df, "temperature")) <= n
            /\ 2 * Abs(cards[2] * n - 10 * ColumnSum(weather_df, "humidity")) <= n
            /\ 2 * Abs(cards[3] * n - ColumnSum(weather_df, "wind_speed")) <= n
            /\ 2 * Abs(cards[4] * n - 10 * ColumnSum(weather_df, "air_quality_index")) <= n
            /\ n = 1 => /\ cards[1] = weather_df[1].temperature
                        /\ cards[2] = 10 * weather_df[1].humidity
                        /\ cards[3] = weather_df[1].wind_speed
                        /\ cards[4] = 10 * weather_df[1].air_quality_index

C8_Witness ==
    /\ cards # <<>>
    /\ Len(weather_df) = Len(regions)
    /\ cards[1] * Len(weather_df) # ColumnSum(weather_df, "temperature")

\* C9: the refresh check forces a re-run exactly when auto-refresh is on and
\* more than the interval has passed since last_refresh; last_refresh changes
\* only then and when the session's first run sets it, each time to the current
\* time; a run that forces a re-run has drawn nothing.
C9_RerunExactlyWhenDue ==
    [][/\ (pc = "refresh" /\ pc' \in {"rerun", "dashboard"}) =>
            /\ (pc' = "rerun") <=>
                   (auto_refresh /\ \A t \in last_refresh : now - t > refresh_interval)
            /\ pc' = "rerun" => last_refresh' = {now'}
            /\ pc' = "dashboard" => last_refresh' = last_refresh
       /\ last_refresh' # last_refresh =>
            /\ last_refresh' = {now'}
            /\ \/ pc = "session" /\ last_refresh = {}
               \/ pc = "refresh" /\ pc' = "rerun"
       /\ pc' = "rerun" => (rendered' = {} /\ cards' = <<>> /\ ~footer')]_vars

C9_Witness ==
    /\ pc = "rerun"
    /\ auto_refresh
    /\ last_refresh = {now}
    /\ rendered = {}

\* C10: whatever allowed date is selected, "All Regions" yields the 8 records
\* of that date.
C10_EveryAllowedDateHasRecords ==
    (Loaded /\ selected_region = AllRegions) => Len(weather_df) = Len(regions)

====
